---- MODULE Spec2Model ----
(***************************************************************************)
(* Model of the Rust showcase crate:                                       *)
(*   - match_result.rs: get_conf_val / read_conf_file / MyError / Setting  *)
(*   - lifetime_ownership.rs, lib.rs: longest                              *)
(* Strings are sequences of one-character strings.                         *)
(***************************************************************************)
EXTENDS Integers, Sequences, FiniteSets, TLC

\* ------------------------------------------------------------------ bounds
MaxLen == 3          \* longest enumerated file content
MaxCalls == 2        \* invocations of get_conf_val in one behaviour
MaxStrLen == 3       \* longest argument of longest()

\* --------------------------------------------------------------- constants
I32_MIN == -2147483647 - 1
I32_MAX == 2147483647
DefaultN == 5

\* ----------------------------------------------------------- input domains
Alphabet == {"0", "2", "4", "-", "+", " ", "a"}

SeqsUpTo(S, n) == UNION {[1..k -> S] : k \in 0..n}

ExtraContents ==
  { <<"4","2","\n">>, <<"\n","4","2">>, <<"4",".","2">>, <<"a","b","c">>,
    <<"2","1","4","7","4","8","3","6","4","7">>,
    <<"2","1","4","7","4","8","3","6","4","8">>,
    <<"-","2","1","4","7","4","8","3","6","4","8">>,
    <<"-","2","1","4","7","4","8","3","6","4","9">>,
    <<"+","2","1","4","7","4","8","3","6","4","7">>,
    <<"9","9","9","9","9","9","9","9","9","9","9">>,
    <<"0","0","0","0","0","0","0","0","0","0","4","2">> }

Contents == SeqsUpTo(Alphabet, MaxLen) \cup ExtraContents

\* Failures File::open can report, and failures read_to_string can report.
OpenErrs == {"NotFound", "PermissionDenied"}
ReadErrs == {"Interrupted", "InvalidData"}

Sources == [openErr : {"none"} \cup OpenErrs,
            readErr : {"none"} \cup ReadErrs,
            content : Contents]

LChars == {"a", "b"}
LStrings == SeqsUpTo(LChars, MaxStrLen)

\* --------------------------------------------------------------- variables
VARIABLES
  source,     \* the external file ./num.txt as the file system holds it
  pc,         \* position inside get_conf_val
  handles,    \* number of File values of get_conf_val currently alive
  content,    \* the local String `content`
  result,     \* the outcome of the current invocation
  prev,       \* the outcome of the previous invocation
  calls,      \* invocations started so far
  didRead,    \* read_to_string was called in this invocation
  didParse,   \* parse::<i32> was called in this invocation
  strs,       \* the two Strings borrowed by longest: strs.a, strs.b
  lres        \* the reference longest returned: "a", "b" or "none"

vars == <<source, pc, handles, content, result, prev, calls, didRead, didParse,
          strs, lres>>

confVars == <<source, pc, handles, content, result, prev, calls, didRead, didParse>>
longVars == <<strs, lres>>

\* ------------------------------------------------------------ pure helpers
ToDigit(c) ==
  CASE c = "0" -> 0 [] c = "1" -> 1 [] c = "2" -> 2 [] c = "3" -> 3
    [] c = "4" -> 4 [] c = "5" -> 5 [] c = "6" -> 6 [] c = "7" -> 7
    [] c = "8" -> 8 [] c = "9" -> 9 [] OTHER -> -1

ParseOkVal(v) == [ok |-> TRUE, val |-> v, err |-> "none"]
ParseErr(e) == [ok |-> FALSE, val |-> 0, err |-> e]

\* checked_mul(10), checked_add(x), checked_sub(x) on i32: None is modelled
\* by the record with ok = FALSE.
CheckedMul10(acc) ==
  IF acc > I32_MAX \div 10 \/ acc < -(I32_MAX \div 10)
    THEN [ok |-> FALSE, val |-> 0] ELSE [ok |-> TRUE, val |-> acc * 10]

CheckedAdd(m, x) ==
  IF m > I32_MAX - x THEN [ok |-> FALSE, val |-> 0] ELSE [ok |-> TRUE, val |-> m + x]

CheckedSub(m, x) ==
  IF m < I32_MIN + x THEN [ok |-> FALSE, val |-> 0] ELSE [ok |-> TRUE, val |-> m - x]

\* The digit loop of <i32 as FromStr>::from_str: checked multiply by the
\* radix, then checked add (positive) or checked subtract (negative).
RECURSIVE ParseDigits(_, _, _, _)
ParseDigits(digits, i, acc, positive) ==
  IF i > Len(digits) THEN ParseOkVal(acc)
  ELSE LET x == ToDigit(digits[i])
           m == CheckedMul10(acc)
           r == IF positive THEN CheckedAdd(m.val, x) ELSE CheckedSub(m.val, x)
           ovf == IF positive THEN "PosOverflow" ELSE "NegOverflow"
       IN IF x < 0 THEN ParseErr("InvalidDigit")
          ELSE IF ~m.ok THEN ParseErr(ovf)
          ELSE IF ~r.ok THEN ParseErr(ovf)
          ELSE ParseDigits(digits, i + 1, r.val, positive)

\* A parser that stops at the first non-digit and keeps what it has (atoi).
RECURSIVE ParseDigitsLenient(_, _, _, _)
ParseDigitsLenient(digits, i, acc, positive) ==
  IF i > Len(digits) THEN ParseOkVal(acc)
  ELSE LET x == ToDigit(digits[i])
           m == CheckedMul10(acc)
           r == IF positive THEN CheckedAdd(m.val, x) ELSE CheckedSub(m.val, x)
       IN IF x < 0 THEN ParseOkVal(acc)
          ELSE IF ~m.ok \/ ~r.ok THEN ParseErr("PosOverflow")
          ELSE ParseDigitsLenient(digits, i + 1, r.val, positive)

IsWhitespace(c) == c \in {" ", "\n", "\t"}

RECURSIVE TrimStart(_)
TrimStart(s) ==
  IF s # <<>> /\ IsWhitespace(Head(s)) THEN TrimStart(Tail(s)) ELSE s

RECURSIVE TrimEnd(_)
TrimEnd(s) ==
  IF s # <<>> /\ IsWhitespace(s[Len(s)]) THEN TrimEnd(SubSeq(s, 1, Len(s) - 1)) ELSE s

Trim(s) == TrimEnd(TrimStart(s))

ParseI32Body(src) ==
  IF src = <<>> THEN ParseErr("Empty")
  ELSE IF Len(src) = 1 /\ src[1] \in {"+", "-"} THEN ParseErr("InvalidDigit")
  ELSE IF src[1] = "+" THEN ParseDigits(Tail(src), 1, 0, TRUE)
  ELSE IF src[1] = "-" THEN ParseDigits(Tail(src), 1, 0, FALSE)
  ELSE ParseDigits(src, 1, 0, TRUE)

\* mutants of ParseI32
ParseI32Lenient(src) ==
  IF src = <<>> THEN ParseErr("Empty")
  ELSE IF src[1] = "+" THEN ParseDigitsLenient(Tail(src), 1, 0, TRUE)
  ELSE IF src[1] = "-" THEN ParseDigitsLenient(Tail(src), 1, 0, FALSE)
  ELSE ParseDigitsLenient(src, 1, 0, TRUE)

ParseI32Unsigned(src) ==
  IF src = <<>> THEN ParseErr("Empty")
  ELSE IF Len(src) = 1 /\ src[1] \in {"+", "-"} THEN ParseErr("InvalidDigit")
  ELSE IF src[1] \in {"+", "-"} THEN ParseDigits(Tail(src), 1, 0, TRUE)
  ELSE ParseDigits(src, 1, 0, TRUE)

ParseI32Trimmed(src) == ParseI32Body(Trim(src))

\* content.parse::<i32>()
ParseI32(src) == ParseI32Body(src)

\* e.to_string() of the std::io::Error read_to_string reports
IoErrorToString(e) ==
  CASE e = "Interrupted" -> "operation interrupted"
    [] e = "InvalidData" -> "stream did not contain valid UTF-8"
    [] OTHER -> "other error"

\* e.to_string() of a ParseIntError
ParseIntErrorToString(e) ==
  CASE e = "Empty" -> "cannot parse integer from empty string"
    [] e = "InvalidDigit" -> "invalid digit found in string"
    [] e = "PosOverflow" -> "number too large to fit in target type"
    [] e = "NegOverflow" -> "number too small to fit in target type"
    [] OTHER -> "other error"

NoResult == [kind |-> "None", n |-> 0, from |-> "none", msg |-> ""]
OkSetting(n) == [kind |-> "Ok", n |-> n, from |-> "none", msg |-> ""]
Panicked(m) == [kind |-> "Panic", n |-> 0, from |-> "none", msg |-> m]

FromIoErrorNoMsg(e) == [kind |-> "Err", n |-> 0, from |-> "io::Error", msg |-> ""]

\* impl From<std::io::Error> for MyError
FromIoError(e) ==
  [kind |-> "Err", n |-> 0, from |-> "io::Error", msg |-> IoErrorToString(e)]

\* impl From<ParseIntError> for MyError
FromParseIntError(e) ==
  [kind |-> "Err", n |-> 0, from |-> "ParseIntError", msg |-> ParseIntErrorToString(e)]

LongestFirstOnTie(a, b) == IF Len(strs[a]) >= Len(strs[b]) THEN a ELSE b

\* longest(a, b): a and b are the references, strs holds what they point to
Longest(a, b) == IF Len(strs[a]) > Len(strs[b]) THEN a ELSE b

\* -------------------------------------------------------------------- Init
ConfInit ==
  /\ pc = "start"
  /\ handles = 0
  /\ content = <<>>
  /\ result = NoResult
  /\ prev = NoResult
  /\ calls = 1
  /\ didRead = FALSE
  /\ didParse = FALSE

Init ==
  /\ source \in Sources
  /\ ConfInit
  /\ strs = [a |-> <<>>, b |-> <<>>]
  /\ lres = "none"

\* ----------------------------------------------------------------- actions
\* let file = read_conf_file("./num.txt"); if let Ok(mut f) = file {
OpenCreating ==
  /\ pc = "start"
  /\ IF source.openErr = "none"
       THEN /\ handles' = handles + 1
            /\ content' = <<>>
            /\ pc' = "opened"
            /\ source' = source
       ELSE /\ pc' = "openfailed"
            /\ source' = [openErr |-> "none", readErr |-> "none", content |-> <<>>]
            /\ UNCHANGED <<handles, content>>
  /\ UNCHANGED <<result, prev, calls, didRead, didParse, longVars>>

Open ==
  /\ pc = "start"
  /\ IF source.openErr = "none"
       THEN /\ handles' = handles + 1
            /\ content' = <<>>
            /\ pc' = "opened"
       ELSE /\ pc' = "openfailed"
            /\ UNCHANGED <<handles, content>>
  /\ UNCHANGED <<source, result, prev, calls, didRead, didParse, longVars>>

\* } else { Ok(Setting { n: 5 }) }
FallbackErr ==
  /\ pc = "openfailed"
  /\ result' = FromIoError(source.openErr)
  /\ pc' = "done"
  /\ UNCHANGED <<source, handles, content, prev, calls, didRead, didParse, longVars>>

Fallback ==
  /\ pc = "openfailed"
  /\ result' = OkSetting(DefaultN)
  /\ pc' = "done"
  /\ UNCHANGED <<source, handles, content, prev, calls, didRead, didParse, longVars>>

\* f.read_to_string(&mut content)  succeeds
ReadOk ==
  /\ pc = "opened"
  /\ source.readErr = "none"
  /\ didRead' = TRUE
  /\ content' = source.content
  /\ pc' = "read"
  /\ UNCHANGED <<source, handles, result, prev, calls, didParse, longVars>>

\* f.read_to_string(&mut content)?  fails: the error is converted and returned,
\* f goes out of scope
ReadFailLeak ==
  /\ pc = "opened"
  /\ source.readErr # "none"
  /\ didRead' = TRUE
  /\ result' = FromIoError(source.readErr)
  /\ pc' = "done"
  /\ UNCHANGED <<source, handles, content, prev, calls, didParse, longVars>>

ReadFail ==
  /\ pc = "opened"
  /\ source.readErr # "none"
  /\ didRead' = TRUE
  /\ result' = FromIoError(source.readErr)
  /\ handles' = handles - 1
  /\ pc' = "done"
  /\ UNCHANGED <<source, content, prev, calls, didParse, longVars>>

\* let n = content.parse::<i32>().unwrap(); Ok(Setting { n })
ParseAndReturn ==
  /\ pc = "read"
  /\ ParseI32(content).ok
  /\ didParse' = TRUE
  /\ result' = OkSetting(ParseI32(content).val)
  /\ handles' = handles - 1
  /\ pc' = "done"
  /\ UNCHANGED <<source, content, prev, calls, didRead, longVars>>

\* content.parse::<i32>().unwrap() on an Err: panic, f is dropped by unwinding
ParseUnwrapPanic ==
  /\ pc = "read"
  /\ ~ParseI32(content).ok
  /\ didParse' = TRUE
  /\ result' = Panicked(ParseIntErrorToString(ParseI32(content).err))
  /\ handles' = handles - 1
  /\ pc' = "done"
  /\ UNCHANGED <<source, content, prev, calls, didRead, longVars>>

\* the caller invokes get_conf_val again; nothing of the last call survives
CallAgain ==
  /\ pc = "done"
  /\ calls < MaxCalls
  /\ calls' = calls + 1
  /\ prev' = result
  /\ result' = NoResult
  /\ content' = <<>>
  /\ didRead' = FALSE
  /\ didParse' = FALSE
  /\ pc' = "start"
  /\ UNCHANGED <<source, handles, longVars>>

Next ==
  \/ Open
  \/ Fallback
  \/ ReadOk
  \/ ReadFail
  \/ ParseAndReturn
  \/ ParseUnwrapPanic
  \/ CallAgain

Spec == Init /\ [][Next]_vars

\* ------------------------------------------------- longest: specification
InitLongest ==
  /\ source = [openErr |-> "NotFound", readErr |-> "none", content |-> <<>>]
  /\ ConfInit
  /\ strs \in [a : LStrings, b : LStrings]
  /\ lres = "none"

\* let res = longest(&a, &b);
LongestCall ==
  /\ lres = "none"
  /\ lres' = Longest("a", "b")
  /\ UNCHANGED <<strs, confVars>>

NextLongest == LongestCall

SpecLongest == InitLongest /\ [][NextLongest]_vars

\* ------------------------------------------- vocabulary of the properties
\* What "a valid base-10 signed integer string" and "its integer value" mean,
\* stated on the text itself and independently of the parser above.
DecDigits == {"0", "1", "2", "3", "4", "5", "6", "7", "8", "9"}

DigitChar(d) ==
  CASE d = 0 -> "0" [] d = 1 -> "1" [] d = 2 -> "2" [] d = 3 -> "3"
    [] d = 4 -> "4" [] d = 5 -> "5" [] d = 6 -> "6" [] d = 7 -> "7"
    [] d = 8 -> "8" [] OTHER -> "9"

HasSign(s) == s # <<>> /\ s[1] \in {"+", "-"}
IsNegative(s) == s # <<>> /\ s[1] = "-"
Unsigned(s) == IF HasSign(s) THEN Tail(s) ELSE s

IsIntSyntax(s) ==
  /\ Unsigned(s) # <<>>
  /\ \A i \in 1..Len(Unsigned(s)) : Unsigned(s)[i] \in DecDigits

RECURSIVE StripZeros(_)
StripZeros(d) == IF d # <<>> /\ Head(d) = "0" THEN StripZeros(Tail(d)) ELSE d

\* the significant digits of the text; <<>> stands for zero
Magnitude(s) == StripZeros(Unsigned(s))

\* lexicographic <= on digit strings of equal length
RECURSIVE LexLeq(_, _)
LexLeq(x, y) ==
  IF x = <<>> THEN TRUE
  ELSE IF Head(x) # Head(y) THEN ToDigit(Head(x)) < ToDigit(Head(y))
  ELSE LexLeq(Tail(x), Tail(y))

MaxMagnitude == <<"2","1","4","7","4","8","3","6","4","7">>
MinMagnitude == <<"2","1","4","7","4","8","3","6","4","8">>

FitsI32(s) ==
  LET m == Magnitude(s)
  IN \/ Len(m) < 10
     \/ Len(m) = 10 /\ LexLeq(m, IF IsNegative(s) THEN MinMagnitude ELSE MaxMagnitude)

IsValidI32String(s) == IsIntSyntax(s) /\ FitsI32(s)

\* the decimal digits of |n| for n <= 0, most significant first
RECURSIVE NegDigits(_)
NegDigits(n) ==
  IF n = 0 THEN <<>>
  ELSE LET d == (10 - (n % 10)) % 10
       IN Append(NegDigits((n + d) \div 10), DigitChar(d))

DigitsOfInt(n) == IF n > 0 THEN NegDigits(-n) ELSE NegDigits(n)

\* the text s denotes the integer n
Denotes(s, n) ==
  /\ IsIntSyntax(s)
  /\ Magnitude(s) = DigitsOfInt(n)
  /\ n < 0 => IsNegative(s)
  /\ n > 0 => ~IsNegative(s)

Readable == source.openErr = "none" /\ source.readErr = "none"
Padded(s) == s # Trim(s) /\ IsValidI32String(Trim(s))

\* ------------------------------------------------------------- properties

\* C1: when the file opens, reads and holds exactly a valid base-10 signed
\* integer string that fits i32, get_conf_val returns Ok(Setting{n}) with n the
\* value of that string; the content "42" gives n = 42.
C1_ValidContentLoads ==
  (pc = "done" /\ Readable /\ IsValidI32String(source.content))
    => /\ result.kind = "Ok"
       /\ Denotes(source.content, result.n)
       /\ source.content = <<"4", "2">> => result.n = 42

C1_Witness ==
  /\ pc = "done" /\ Readable
  /\ source.content = <<"-", "4", "2">>
  /\ result = OkSetting(-42)

\* C2: when File::open fails, for any reason, get_conf_val returns
\* Ok(Setting{n: 5}), never an error, and neither reads nor parses.
C2_OpenFailureFallsBack ==
  source.openErr # "none"
    => /\ ~didRead /\ ~didParse
       /\ result.kind \in {"None", "Ok"}
       /\ pc = "done" => result = OkSetting(5)

C2_Witness ==
  /\ pc = "done" /\ source.openErr = "PermissionDenied"
  /\ source.content = <<"4", "2">>
  /\ result = OkSetting(5)

\* C3: when the file was opened and read but its content is not a valid i32,
\* get_conf_val returns Err converted from the ParseIntError.
C3_BadContentReturnsParseErr ==
  (pc = "done" /\ Readable /\ ~IsValidI32String(source.content))
    => result.kind = "Err" /\ result.from = "ParseIntError"

\* C4: when the file opened but read_to_string fails, get_conf_val returns
\* Err converted from the io::Error, carrying its message; no Setting is
\* produced and no parse is attempted.
C4_ReadFailureReturnsIoErr ==
  (source.openErr = "none" /\ source.readErr # "none")
    => /\ ~didParse
       /\ result.kind # "Ok"
       /\ pc = "done" => /\ result.kind = "Err"
                         /\ result.from = "io::Error"
                         /\ result.msg = IoErrorToString(source.readErr)
                         /\ result.msg # ""

C4_Witness ==
  /\ pc = "done" /\ source.openErr = "none" /\ source.readErr = "InvalidData"
  /\ result.kind = "Err" /\ result.msg = "stream did not contain valid UTF-8"
  /\ didRead

\* C5: every invocation of get_conf_val ends with Ok(Setting) or with a
\* typed Err, never with anything else such as a panic.
C5_EndsInOkOrErr ==
  pc = "done" => result.kind \in {"Ok", "Err"}

\* C6 as stated: content that is a valid integer surrounded by whitespace
\* loads as Ok(Setting{n}) with n the value of the trimmed content.
C6_TrimmedContentLoads ==
  (pc = "done" /\ Readable /\ Padded(source.content))
    => result.kind = "Ok" /\ Denotes(Trim(source.content), result.n)

\* C6 amended: the parsed text is the whole content as read, untrimmed, and
\* content that is a valid integer surrounded by whitespace yields no
\* Setting.
C6_UntrimmedContentParsed ==
  /\ pc \in {"read", "done"} /\ didRead /\ Readable => content = source.content
  /\ (pc = "done" /\ Readable /\ Padded(source.content)) => result.kind # "Ok"

C6_Witness ==
  /\ pc = "done" /\ Readable
  /\ source.content = <<"4", "2", "\n">>
  /\ didParse
  /\ result.kind # "Ok"

\* C7: every exit of get_conf_val that opened the file has released the
\* handle when the call ends, and at most one handle is open during a load.
C7_HandleReleased ==
  /\ handles \in {0, 1}
  /\ pc = "done" => handles = 0
  /\ handles = 1 => pc \in {"opened", "read"}

C7_Witness ==
  /\ pc = "done" /\ handles = 0
  /\ source.openErr = "none" /\ source.readErr = "Interrupted"
  /\ didRead /\ result.kind = "Err"

\* C8: a Setting that was produced holds an i32 that is either the default 5
\* after a failed open or the value of the entire content that was read; none
\* is produced from partially numeric or out-of-range content.
SettingIsSound(r) ==
  r.kind = "Ok"
    => /\ r.n >= I32_MIN /\ r.n <= I32_MAX
       /\ \/ source.openErr # "none" /\ r.n = 5
          \/ /\ Readable
             /\ IsValidI32String(source.content)
             /\ Denotes(source.content, r.n)

C8_SettingSound == SettingIsSound(result) /\ SettingIsSound(prev)

C8_Witness ==
  /\ result.kind = "Ok" /\ Readable
  /\ source.content = <<"+", "2","1","4","7","4","8","3","6","4","7">>
  /\ result.n = I32_MAX

\* C9: a second get_conf_val on the unchanged file ends with the same outcome
\* as the first.
C9_Idempotent ==
  (pc = "done" /\ calls >= 2) => result = prev

C9_Witness ==
  /\ pc = "done" /\ calls = 2
  /\ source.openErr = "NotFound"
  /\ result = OkSetting(5) /\ prev = OkSetting(5)

\* C10: longest(a, b) returns one of its two arguments: a exactly when
\* len(a) > len(b), b otherwise (so b on a tie), and the result has the
\* larger of the two lengths.
C10_LongestPicks ==
  lres # "none"
    => /\ lres \in {"a", "b"}
       /\ lres = "a" <=> Len(strs.a) > Len(strs.b)
       /\ Len(strs.a) = Len(strs.b) => lres = "b"
       /\ Len(strs[lres]) >= Len(strs.a) /\ Len(strs[lres]) >= Len(strs.b)

C10_Witness ==
  /\ lres = "b"
  /\ Len(strs.a) = Len(strs.b) /\ strs.a # strs.b

====
